---- MODULE Spec2Model ----
(***************************************************************************)
(* Diverse Subgroup Set Discovery (src/dssd.py).                           *)
(*                                                                         *)
(* A subgroup description is a Python dict {column: bool}.  A dict keeps   *)
(* its keys in insertion order and str(dict) prints them in that order, so *)
(* a description is modelled as a sequence of <<column, value>> pairs with *)
(* pairwise distinct columns.  The dataset is a pandas DataFrame of        *)
(* boolean columns: a sequence of column names and a set of rows, each row *)
(* a pair <<values, row index>>.                                           *)
(***************************************************************************)
EXTENDS Integers, Sequences, FiniteSets, TLC

VARIABLES
    S,          \* dssd: the DataFrame
    phi,        \* dssd: the quality function (the parameter named by a Greek phi)
    j,          \* dssd / update_top_k: width of the top list
    k,          \* dssd: size of the final result
    mincov,     \* dssd / generate_refinements: minimum coverage
    maxdepth,   \* dssd: number of iterations of the depth loop
    P,          \* dssd / subgroup_selection: the params dict
    R,          \* dssd / update_top_k: the list of (description, quality)
    Beam,       \* dssd: the current beam
    depth,      \* dssd: the loop counter
    pc,         \* position in dssd, or in the function under study
    result,     \* the value returned by dssd
    allCands,   \* history: every candidate put in Cands, in generation order
    evicted,    \* history: the qualities of the entries removed from R
    args,       \* arguments of the function under study
    ret         \* value returned by the function under study

vars == <<S, phi, j, k, mincov, maxdepth, P, R, Beam, depth, pc, result,
          allCands, evicted, args, ret>>

(***************************************************************************)
(* Bounds of the model.                                                    *)
(***************************************************************************)
MaxCount == 1       \* copies of each row value in a generated dataset
MaxJ == 3
MaxK == 2
MaxMincov == 2
MaxDepth == 3
MaxBeam == 2
MaxQuality == 1     \* qualities of a tabulated quality function are 0..MaxQuality
MaxCalls == 5       \* calls of update_top_k in a sequence of calls
MaxLen == 3         \* length of a list given to remove_duplicates or subgroup_selection

(***************************************************************************)
(* Generic helpers.                                                        *)
(***************************************************************************)
Min(a, b) == IF a <= b THEN a ELSE b

Max(a, b) == IF a >= b THEN a ELSE b

Range(s) == {s[i] : i \in DOMAIN s}

\* Python's seq[:n], for any integer n
SliceTo(s, n) ==
    IF n >= 0 THEN SubSeq(s, 1, Min(n, Len(s)))
    ELSE SubSeq(s, 1, Max(0, Len(s) + n))

\* list.remove at a known position
RemoveAt(s, i) == SubSeq(s, 1, i - 1) \o SubSeq(s, i + 1, Len(s))

RECURSIVE Flatten(_)
\* Cands.extend(...) over a list of lists
Flatten(ss) ==
    IF ss = <<>> THEN <<>> ELSE Head(ss) \o Flatten(Tail(ss))

(***************************************************************************)
(* Descriptions (Python dicts).                                            *)
(***************************************************************************)
Keys(d) == {d[i][1] : i \in DOMAIN d}

\* the (attribute, value) conditions of a description, order forgotten
CondSet(d) == {d[i] : i \in DOMAIN d}

\* dict == dict: same keys with the same values, whatever the order
DictEq(a, b) == CondSet(a) = CondSet(b)

\* {**subgroup, **{column: value}}: an existing key keeps its position and
\* takes the new value, a new key goes last
DictMerge(d, column, value) ==
    IF column \in Keys(d)
    THEN [i \in DOMAIN d |-> IF d[i][1] = column THEN <<column, value>> ELSE d[i]]
    ELSE Append(d, <<column, value>>)

\* del d[column]
DictDel(d, column) == SelectSeq(d, LAMBDA c : c[1] # column)

\* str(True), str(False)
BoolStr(v) == IF v THEN "True" ELSE "False"

RECURSIVE DictStr(_)
\* str(dict): the items printed in insertion order, as a sequence of tokens
DictStr(d) ==
    IF d = <<>> THEN <<>>
    ELSE <<Head(d)[1], ":", BoolStr(Head(d)[2])>> \o DictStr(Tail(d))

(***************************************************************************)
(* The dataset and the quality functions.                                  *)
(***************************************************************************)
\* len(data.query(' and '.join(f'{k}=={v}' ...))): the rows on which every
\* condition holds
coverage_count(d, data) ==
    Cardinality({r \in data.rows : \A i \in DOMAIN d : r[1][d[i][1]] = d[i][2]})

RECURSIVE BonusLoop(_, _, _)
\* the loop of calculate_subgroup_quality over the keys: the first key of
\* interest makes the bonus 3, any further one makes it 0
BonusLoop(d, interests, bonus) ==
    IF d = <<>> THEN bonus
    ELSE BonusLoop(Tail(d), interests,
                   IF Head(d)[1] \in interests
                   THEN (IF bonus = 1 THEN 3 ELSE 0)
                   ELSE bonus)

calculate_subgroup_quality(d, data, interests) ==
    coverage_count(d, data) * Len(d) * BonusLoop(d, interests, 1)

\* quality_func(description, data) for the quality functions of the model
Phi(qf, d, data) ==
    CASE qf.kind = "coverage"  -> coverage_count(d, data)
      [] qf.kind = "zero"      -> 0
      [] qf.kind = "calculate" -> calculate_subgroup_quality(d, data, qf.interests)
      [] qf.kind = "table"     -> qf.table[CondSet(d)]

(***************************************************************************)
(* generate_refinements                                                    *)
(***************************************************************************)
\* mutation: a column already in the description is refined again
RefinableColumn_Always(subgroup, column) == TRUE

\* the guard of the outer loop: columns already in the description are skipped
RefinableColumn(subgroup, column) == column \notin Keys(subgroup)

\* mutation: the coverage test is off by one
MeetsCoverage_OffByOne(refined_subgroup, mincov_, data) ==
    coverage_count(refined_subgroup, data) >= mincov_ - 1

\* the coverage test before refinements.append
MeetsCoverage(refined_subgroup, mincov_, data) ==
    coverage_count(refined_subgroup, data) >= mincov_

\* the inner loop: value True, then value False
RefineColumn(subgroup, mincov_, data, column) ==
    LET t == DictMerge(subgroup, column, TRUE)
        f == DictMerge(subgroup, column, FALSE)
    IN  (IF MeetsCoverage(t, mincov_, data) THEN <<t>> ELSE <<>>)
        \o (IF MeetsCoverage(f, mincov_, data) THEN <<f>> ELSE <<>>)

RECURSIVE RefineLoop(_, _, _, _)
RefineLoop(subgroup, mincov_, data, i) ==
    IF i > Len(data.columns) THEN <<>>
    ELSE (IF RefinableColumn(subgroup, data.columns[i])
          THEN RefineColumn(subgroup, mincov_, data, data.columns[i])
          ELSE <<>>)
         \o RefineLoop(subgroup, mincov_, data, i + 1)

generate_refinements(subgroup, mincov_, data) ==
    RefineLoop(subgroup, mincov_, data, 1)

(***************************************************************************)
(* update_top_k                                                            *)
(***************************************************************************)
\* mutation: the oldest entry is taken for the worst one
MinIndex_First(R_) == 1

\* index of min(R, key=lambda x: x[1]): the first entry of least quality
MinIndex(R_) ==
    CHOOSE i \in DOMAIN R_ :
        /\ \A m \in DOMAIN R_ : R_[i][2] <= R_[m][2]
        /\ \A m \in 1..(i - 1) : R_[m][2] > R_[i][2]

\* index removed by R.remove(x): the first entry equal to x
RemoveIndex(R_, x) ==
    CHOOSE i \in DOMAIN R_ :
        /\ DictEq(R_[i][1], x[1]) /\ R_[i][2] = x[2]
        /\ \A m \in 1..(i - 1) : ~(DictEq(R_[m][1], x[1]) /\ R_[m][2] = x[2])

\* mutation: the list is allowed one entry too many
TopKHasRoom_Inclusive(R_, j_) == Len(R_) <= j_

\* len(R) < j
TopKHasRoom(R_, j_) == Len(R_) < j_

\* mutation: a candidate that ties with the worst retained quality replaces it
TopKBeats_OrEqual(quality, min_quality) == quality >= min_quality

\* mutation: the comparison with the worst retained quality is reversed
TopKBeats_Flipped(quality, min_quality) == quality < min_quality

\* quality > min_quality
TopKBeats(quality, min_quality) == quality > min_quality

\* min() of an empty list raises ValueError
TopKRaises(R_, j_) == ~TopKHasRoom(R_, j_) /\ R_ = <<>>

\* the entry update_top_k removes from R, as a set of at most one index
TopKEvicts(R_, j_, quality) ==
    IF TopKHasRoom(R_, j_) \/ R_ = <<>> THEN {}
    ELSE IF TopKBeats(quality, R_[MinIndex(R_)][2])
         THEN {RemoveIndex(R_, R_[MinIndex(R_)])}
         ELSE {}

\* R after update_top_k(R, j, candidate, quality), when it does not raise
update_top_k(R_, j_, candidate, quality) ==
    IF TopKHasRoom(R_, j_) THEN Append(R_, <<candidate, quality>>)
    ELSE IF R_ = <<>> THEN R_
    ELSE IF TopKBeats(quality, R_[MinIndex(R_)][2])
         THEN Append(RemoveAt(R_, RemoveIndex(R_, R_[MinIndex(R_)])),
                     <<candidate, quality>>)
         ELSE R_

(***************************************************************************)
(* subgroup_selection                                                      *)
(***************************************************************************)
\* mutation: a sort that puts an entry before the earlier entries of equal quality
SortsBefore_Strict(e, x) == e[2] > x[2]

\* where list.sort(key=quality, reverse=True) puts x among the entries
\* already sorted: after every entry whose quality is at least x's
SortsBefore(e, x) == e[2] >= x[2]

InsertSorted(sorted, x) ==
    LET pos == Cardinality({i \in DOMAIN sorted : SortsBefore(sorted[i], x)})
    IN  SubSeq(sorted, 1, pos) \o <<x>> \o SubSeq(sorted, pos + 1, Len(sorted))

RECURSIVE SortDesc(_)
\* selected.sort(key=lambda x: x[1], reverse=True): stable, descending
SortDesc(s) ==
    IF s = <<>> THEN <<>>
    ELSE InsertSorted(SortDesc(SubSeq(s, 1, Len(s) - 1)), s[Len(s)])

\* params.get('beam_width', len(selected))
SelectionWidth(params, selected) ==
    IF "beam_width" \in DOMAIN params THEN params["beam_width"] ELSE Len(selected)

subgroup_selection(candidates, quality_func, params, data) ==
    LET selected == [i \in DOMAIN candidates |->
                        <<candidates[i], Phi(quality_func, candidates[i], data)>>]
        sorted   == SortDesc(selected)
        top      == SliceTo(sorted, SelectionWidth(params, selected))
    IN  [i \in DOMAIN top |-> top[i][1]]

(***************************************************************************)
(* apply_dominance_pruning                                                 *)
(***************************************************************************)
\* mutation: a removal that only ties is not accepted
PruneAccepts_Strict(temp_quality, current_quality) == temp_quality > current_quality

\* mutation: the comparison of the pruning test is reversed
PruneAccepts_Flipped(temp_quality, current_quality) == temp_quality <= current_quality

\* temp_quality >= current_quality
PruneAccepts(temp_quality, current_quality) == temp_quality >= current_quality

\* mutation: pruning does not stop at one condition
PruneFloor_Never(pruned_subgroup) == FALSE

\* len(pruned_subgroup.keys()) == 1
PruneFloor(pruned_subgroup) == Len(pruned_subgroup) = 1

RECURSIVE PruneLoop(_, _, _, _, _, _)
\* the loop over list(subgroup[0].keys()), from the i-th key on
PruneLoop(keys, i, pruned_subgroup, current_quality, quality_func, data) ==
    IF i > Len(keys) THEN pruned_subgroup
    ELSE LET temp_subgroup == DictDel(pruned_subgroup, keys[i][1])
             temp_quality  == Phi(quality_func, temp_subgroup, data)
             accept        == PruneAccepts(temp_quality, current_quality)
             next_subgroup == IF accept THEN temp_subgroup ELSE pruned_subgroup
             next_quality  == IF accept THEN temp_quality ELSE current_quality
         IN  IF PruneFloor(next_subgroup) THEN next_subgroup
             ELSE PruneLoop(keys, i + 1, next_subgroup, next_quality,
                            quality_func, data)

apply_dominance_pruning(subgroup, quality_func, data) ==
    IF PruneFloor(subgroup[1]) THEN subgroup[1]
    ELSE PruneLoop(subgroup[1], 1, subgroup[1], subgroup[2], quality_func, data)

(***************************************************************************)
(* remove_duplicates                                                       *)
(***************************************************************************)
\* description = str(subgroup)
DescriptionKey(subgroup) == DictStr(subgroup)

RECURSIVE DedupLoop(_, _, _)
DedupLoop(subgroups, i, seen_descriptions) ==
    IF i > Len(subgroups) THEN <<>>
    ELSE IF DescriptionKey(subgroups[i]) \notin seen_descriptions
         THEN <<subgroups[i]>>
              \o DedupLoop(subgroups, i + 1,
                           seen_descriptions \cup {DescriptionKey(subgroups[i])})
         ELSE DedupLoop(subgroups, i + 1, seen_descriptions)

remove_duplicates(subgroups) == DedupLoop(subgroups, 1, {})

(***************************************************************************)
(* dssd                                                                    *)
(***************************************************************************)
\* the datasets of the model
RowValues(columns) == [Range(columns) -> BOOLEAN]

GeneratedData(columns, count) ==
    [columns |-> columns,
     rows    |-> {r \in RowValues(columns) \X (1..MaxCount) : r[2] <= count[r[1]]}]

TwoColumnData ==
    {GeneratedData(<<"A", "B">>, count) :
        count \in [RowValues(<<"A", "B">>) -> 0..MaxCount]}

\* three-column datasets: any subset of these four rows
ThreeColumnValues ==
    {[A |-> FALSE, B |-> FALSE, C |-> FALSE], [A |-> FALSE, B |-> TRUE, C |-> TRUE],
     [A |-> TRUE, B |-> TRUE, C |-> TRUE], [A |-> TRUE, B |-> FALSE, C |-> TRUE]}

ThreeColumnData ==
    {GeneratedData(<<"A", "B", "C">>,
                   [v \in RowValues(<<"A", "B", "C">>) |->
                       IF v \in present THEN 1 ELSE 0]) :
        present \in SUBSET ThreeColumnValues}

\* ten rows, A true on rows 0..6, B true on rows 3..9
ExampleData ==
    [columns |-> <<"A", "B">>,
     rows    |-> {<<[A |-> i <= 6, B |-> i >= 3], i>> : i \in 0..9}]

Datasets == TwoColumnData \cup ThreeColumnData

QualityFunctions ==
    {[kind |-> "coverage", interests |-> {}], [kind |-> "zero", interests |-> {}]}
    \cup {[kind |-> "calculate", interests |-> I] : I \in {{}, {"A"}, {"A", "B"}}}

RECURSIVE TopKFold(_, _, _, _, _, _)
\* for c in Cands: update_top_k(R, j, c, phi(c, S)), from the i-th candidate
\* on; out collects the qualities of the entries removed from R
TopKFold(acc, j_, Cands, i, quality_func, data) ==
    IF i > Len(Cands) \/ acc.raised THEN acc
    ELSE LET quality == Phi(quality_func, Cands[i], data)
             gone    == TopKEvicts(acc.R, j_, quality)
         IN  TopKFold([R      |-> update_top_k(acc.R, j_, Cands[i], quality),
                       raised |-> TopKRaises(acc.R, j_),
                       out    |-> acc.out \cup {acc.R[g][2] : g \in gone}],
                      j_, Cands, i + 1, quality_func, data)

NoCall == [fn |-> "none"]

InitDssd(data, quality_func, j_, k_, mincov_, maxdepth_, beam_width) ==
    /\ S = data
    /\ phi = quality_func
    /\ j = j_
    /\ k = k_
    /\ mincov = mincov_
    /\ maxdepth = maxdepth_
    /\ P = [beam_width |-> beam_width]
    /\ R = <<>>
    /\ Beam = << <<>> >>
    /\ depth = 1
    /\ pc = "depth_loop"
    /\ result = <<>>
    /\ allCands = <<>>
    /\ evicted = {}
    /\ args = NoCall
    /\ ret = <<>>

\* the example run: quality = coverage, mincov=3, maxdepth=2, j=4, k=2, beam_width=2
IsExample ==
    /\ S = ExampleData /\ phi.kind = "coverage"
    /\ j = 4 /\ k = 2 /\ mincov = 3 /\ maxdepth = 2 /\ P["beam_width"] = 2

Init ==
    \/ \E data \in Datasets, quality_func \in QualityFunctions,
          j_ \in 1..MaxJ, k_ \in 1..MaxK, mincov_ \in 1..MaxMincov,
          maxdepth_ \in 1..MaxDepth, beam_width \in 1..MaxBeam :
            InitDssd(data, quality_func, j_, k_, mincov_, maxdepth_, beam_width)
    \/ InitDssd(ExampleData, [kind |-> "coverage", interests |-> {}], 4, 2, 3, 2, 2)

\* mutation: the loop stops one iteration early
LoopContinues_Exclusive(depth_, maxdepth_) == depth_ < maxdepth_

\* while depth <= maxdepth
LoopContinues(depth_, maxdepth_) == depth_ <= maxdepth_

\* one iteration of the while loop
DepthIteration ==
    /\ pc = "depth_loop"
    /\ LoopContinues(depth, maxdepth)
    /\ LET Cands == Flatten([b \in DOMAIN Beam |->
                               generate_refinements(Beam[b], mincov, S)])
           top   == TopKFold([R |-> R, raised |-> FALSE, out |-> {}],
                             j, Cands, 1, phi, S)
       IN  /\ allCands' = allCands \o Cands
           /\ R' = top.R
           /\ evicted' = evicted \cup top.out
           /\ IF top.raised
              THEN /\ pc' = "error"
                   /\ UNCHANGED <<Beam, depth>>
              ELSE /\ Beam' = subgroup_selection(Cands, phi, P, S)
                   /\ depth' = depth + 1
                   /\ pc' = pc
    /\ UNCHANGED <<S, phi, j, k, mincov, maxdepth, P, result, args, ret>>

\* the while condition fails
LoopExit ==
    /\ pc = "depth_loop"
    /\ ~LoopContinues(depth, maxdepth)
    /\ pc' = "post_processing"
    /\ UNCHANGED <<S, phi, j, k, mincov, maxdepth, P, R, Beam, depth, result,
                   allCands, evicted, args, ret>>

\* dominance pruning of every retained entry, then removal of duplicates
PostProcessing ==
    /\ pc = "post_processing"
    /\ R' = remove_duplicates([i \in DOMAIN R |->
                                 apply_dominance_pruning(R[i], phi, S)])
    /\ pc' = "final_selection"
    /\ UNCHANGED <<S, phi, j, k, mincov, maxdepth, P, Beam, depth, result,
                   allCands, evicted, args, ret>>

\* R = subgroup_selection(R, phi, P, S); return R[:k]
FinalSelection ==
    /\ pc = "final_selection"
    /\ R' = subgroup_selection(R, phi, P, S)
    /\ result' = SliceTo(R', k)
    /\ pc' = "done"
    /\ UNCHANGED <<S, phi, j, k, mincov, maxdepth, P, Beam, depth,
                   allCands, evicted, args, ret>>

Next == DepthIteration \/ LoopExit \/ PostProcessing \/ FinalSelection

Spec == Init /\ [][Next]_vars

\* a configuration the search cannot use
InvalidConfig ==
    mincov <= 0 \/ maxdepth <= 0 \/ j <= 0 \/ k <= 0 \/ P["beam_width"] <= 0

\* dssd called with at least one parameter that is zero
InitInvalid ==
    \E data \in Datasets, quality_func \in QualityFunctions,
       j_ \in 0..MaxJ, k_ \in 0..MaxK, mincov_ \in 0..MaxMincov,
       maxdepth_ \in 0..MaxDepth, beam_width \in 0..MaxBeam :
          /\ 0 \in {j_, k_, mincov_, maxdepth_, beam_width}
          /\ InitDssd(data, quality_func, j_, k_, mincov_, maxdepth_, beam_width)

SpecInvalid == InitInvalid /\ [][Next]_vars

(***************************************************************************)
(* Properties of dssd.                                                     *)
(***************************************************************************)
\* C1: the list returned by dssd has at most k descriptions, and each of
\* them covers at least mincov rows of the dataset, descriptions shortened
\* by dominance pruning included.
C1_FinalOutputBound ==
    pc = "done" =>
        /\ Len(result) <= k
        /\ \A i \in DOMAIN result : coverage_count(result[i], S) >= mincov

\* a run that returns k descriptions, one of them a description that
\* pruning produced and the search never generated
C1_Witness ==
    /\ pc = "done"
    /\ Len(result) = k
    /\ \E i \in DOMAIN result : result[i] \notin Range(allCands)

\* C2: the final selection returns min(k, size of the pruned, deduplicated
\* list) descriptions, in descending order of recomputed quality, whatever
\* beam_width is.
C2_FinalSelectionKeepsK ==
    [][pc = "final_selection" =>
        /\ Len(result') = Min(k, Len(R))
        /\ \A a, b \in DOMAIN result' :
              a < b => Phi(phi, result'[a], S) >= Phi(phi, result'[b], S)]_vars

\* the descriptions {A: True, B: True} of the example, in any key order
IsAandB(d) == CondSet(d) = {<<"A", TRUE>>, <<"B", TRUE>>}

\* C3 as stated: the example run returns at most 2 descriptions, one of
\* which is {A: True, B: True}.
C3_ExampleIncludesAandB ==
    (IsExample /\ pc = "done") =>
        /\ Len(result) <= 2
        /\ \E i \in DOMAIN result : IsAandB(result[i])

\* C3, amended: in the example run {A: True, B: True} is in the top list
\* with quality 4 when the depth loop ends, and the run returns the two
\* single-condition descriptions {A: True} and {B: True}, in this order,
\* and not {A: True, B: True}.
C3_ExampleResult ==
    IsExample =>
        /\ pc = "post_processing" =>
              \E i \in DOMAIN R : IsAandB(R[i][1]) /\ R[i][2] = 4
        /\ pc = "done" =>
              result = << <<<<"A", TRUE>>>>, <<<<"B", TRUE>>>> >>

C3_Witness == IsExample /\ pc = "done" /\ Len(result) = 2

\* number of entries of a sequence of qualities equal to q
Count(qs, q) == Cardinality({i \in DOMAIN qs : qs[i] = q})

\* C6: when the depth loop ends, the qualities held in R are the j largest
\* qualities (as a multiset) of all the candidates generated at all depths,
\* or all of them when fewer than j were generated.
C6_TopJIsGlobal ==
    (pc = "post_processing") =>
        LET all  == [i \in DOMAIN allCands |-> Phi(phi, allCands[i], S)]
            held == [i \in DOMAIN R |-> R[i][2]]
        IN  /\ Len(R) = Min(j, Len(allCands))
            /\ \A i \in DOMAIN R : R[i][2] = Phi(phi, R[i][1], S)
            /\ \A q \in Range(all) :
                  /\ Count(held, q) <= Count(all, q)
                  /\ Count(held, q) < Count(all, q) =>
                        \A i \in DOMAIN held : held[i] >= q

\* the loop ends with more candidates generated than R can hold, R holding
\* entries of two different depths, one of them evicted earlier entries and
\* one never selected into a beam
C6_Witness ==
    /\ pc = "post_processing"
    /\ Len(allCands) > j
    /\ evicted # {}
    /\ \E a, b \in DOMAIN R : Len(R[a][1]) = 1 /\ Len(R[b][1]) >= 2
    /\ \E a \in DOMAIN R :
          Len(R[a][1]) < maxdepth
          /\ \A c \in DOMAIN allCands :
                Len(allCands[c]) > Len(R[a][1]) =>
                    SubSeq(allCands[c], 1, Len(R[a][1])) # R[a][1]

(***************************************************************************)
(* The functions of dssd.py called on their own.  args holds the           *)
(* arguments, ret the returned value, pc is "call" before the call and     *)
(* "return" after it.                                                      *)
(***************************************************************************)
\* the variables of dssd that a call of one function does not use
IdleDssd ==
    /\ k = 1 /\ maxdepth = 1 /\ Beam = <<>> /\ depth = 1
    /\ result = <<>> /\ allCands = <<>>

NoData == [columns |-> <<>>, rows |-> {}]

NoQuality == [kind |-> "zero", interests |-> {}]

\* sequences of at most n elements of set
SeqUpTo(set, n) == UNION {[1..m -> set] : m \in 0..n}

\* every ordering of every non-empty set of columns, all conditions
\* requiring the same value
OrderedDescriptions(columns) ==
    {d \in SeqUpTo(columns \X BOOLEAN, Cardinality(columns)) :
        /\ d # <<>>
        /\ \A a, b \in DOMAIN d : (a # b => d[a][1] # d[b][1]) /\ d[a][2] = d[b][2]}

(***************************************************************************)
(* update_top_k, called any number of times on a list that starts empty.   *)
(***************************************************************************)
TopKCandidates ==
    {<<<<"A", TRUE>>>>, <<<<"A", TRUE>>, <<"B", TRUE>>>>, <<<<"B", TRUE>>, <<"A", TRUE>>>>}

InitTopK ==
    /\ j \in 1..MaxJ
    /\ R = <<>>
    /\ evicted = {}
    /\ pc = "call"
    /\ args = [fn |-> "update_top_k", calls |-> 0]
    /\ ret = <<>>
    /\ S = NoData /\ phi = NoQuality /\ mincov = 1 /\ P = [beam_width |-> 1]
    /\ IdleDssd

UpdateTopK ==
    /\ args.fn = "update_top_k"
    /\ args.calls < MaxCalls
    /\ ~TopKRaises(R, j)
    /\ \E candidate \in TopKCandidates, quality \in 0..MaxQuality + 1 :
          /\ R' = update_top_k(R, j, candidate, quality)
          /\ evicted' = evicted \cup {R[g][2] : g \in TopKEvicts(R, j, quality)}
          /\ ret' = <<candidate, quality>>
    /\ args' = [args EXCEPT !.calls = @ + 1]
    /\ pc' = "return"
    /\ UNCHANGED <<S, phi, j, k, mincov, maxdepth, P, Beam, depth, result, allCands>>

NextTopK == UpdateTopK

SpecTopK == InitTopK /\ [][NextTopK]_vars

\* update_top_k on its own and inside dssd
SpecTopKDssd == (InitTopK \/ Init) /\ [][NextTopK \/ Next]_vars

(***************************************************************************)
(* apply_dominance_pruning, called on one (description, quality) pair with *)
(* an arbitrary quality function over the subsets of the description.      *)
(***************************************************************************)
InitPrune ==
    /\ \E d \in OrderedDescriptions({"A", "B", "C"}) :
          \E table \in [SUBSET CondSet(d) -> 0..MaxQuality] :
             /\ phi = [kind |-> "table", table |-> table]
             /\ args = [fn |-> "apply_dominance_pruning",
                        subgroup |-> <<d, table[CondSet(d)]>>]
    /\ S = NoData
    /\ pc = "call"
    /\ ret = <<>>
    /\ R = <<>> /\ evicted = {} /\ j = 1 /\ mincov = 1 /\ P = [beam_width |-> 1]
    /\ IdleDssd

ApplyDominancePruning ==
    /\ pc = "call"
    /\ args.fn = "apply_dominance_pruning"
    /\ ret' = apply_dominance_pruning(args.subgroup, phi, S)
    /\ pc' = "return"
    /\ UNCHANGED <<S, phi, j, k, mincov, maxdepth, P, R, Beam, depth, result,
                   allCands, evicted, args>>

NextPrune == ApplyDominancePruning

SpecPrune == InitPrune /\ [][NextPrune]_vars

\* pruning on its own and inside dssd
SpecPruneDssd == (InitPrune \/ Init) /\ [][NextPrune \/ Next]_vars

(***************************************************************************)
(* remove_duplicates                                                       *)
(***************************************************************************)
DedupDescriptions ==
    {<<<<"A", TRUE>>>>, <<<<"A", FALSE>>>>, <<<<"B", TRUE>>>>,
     <<<<"A", TRUE>>, <<"B", TRUE>>>>, <<<<"B", TRUE>>, <<"A", TRUE>>>>}

InitDedup ==
    /\ \E subgroups \in SeqUpTo(DedupDescriptions, MaxLen + 1) :
          args = [fn |-> "remove_duplicates", subgroups |-> subgroups]
    /\ S = NoData /\ phi = NoQuality
    /\ pc = "call"
    /\ ret = <<>>
    /\ R = <<>> /\ evicted = {} /\ j = 1 /\ mincov = 1 /\ P = [beam_width |-> 1]
    /\ IdleDssd

RemoveDuplicates ==
    /\ pc = "call"
    /\ args.fn = "remove_duplicates"
    /\ ret' = remove_duplicates(args.subgroups)
    /\ pc' = "return"
    /\ UNCHANGED <<S, phi, j, k, mincov, maxdepth, P, R, Beam, depth, result,
                   allCands, evicted, args>>

NextDedup == RemoveDuplicates

SpecDedup == InitDedup /\ [][NextDedup]_vars

(***************************************************************************)
(* generate_refinements                                                    *)
(***************************************************************************)
InitRefine ==
    /\ S \in Datasets \cup {ExampleData}
    /\ mincov \in 1..MaxMincov + 1
    /\ \E subgroup \in {<<>>} \cup OrderedDescriptions(Range(S.columns)) :
          args = [fn |-> "generate_refinements", subgroup |-> subgroup]
    /\ phi = NoQuality
    /\ pc = "call"
    /\ ret = <<>>
    /\ R = <<>> /\ evicted = {} /\ j = 1 /\ P = [beam_width |-> 1]
    /\ IdleDssd

GenerateRefinements ==
    /\ pc = "call"
    /\ args.fn = "generate_refinements"
    /\ ret' = generate_refinements(args.subgroup, mincov, S)
    /\ pc' = "return"
    /\ UNCHANGED <<S, phi, j, k, mincov, maxdepth, P, R, Beam, depth, result,
                   allCands, evicted, args>>

NextRefine == GenerateRefinements

SpecRefine == InitRefine /\ [][NextRefine]_vars

(***************************************************************************)
(* subgroup_selection                                                      *)
(***************************************************************************)
SelectDescriptions ==
    {<<<<"A", TRUE>>>>, <<<<"B", TRUE>>>>,
     <<<<"A", TRUE>>, <<"B", TRUE>>>>, <<<<"B", TRUE>>, <<"A", TRUE>>>>}

InitSelect ==
    /\ \E candidates \in SeqUpTo(SelectDescriptions, MaxLen) :
          args = [fn |-> "subgroup_selection", candidates |-> candidates]
    /\ \E table \in [{CondSet(d) : d \in SelectDescriptions} -> 0..MaxQuality] :
          phi = [kind |-> "table", table |-> table]
    /\ \E beam_width \in 1..MaxBeam : P = [beam_width |-> beam_width]
    /\ S = NoData
    /\ pc = "call"
    /\ ret = <<>>
    /\ R = <<>> /\ evicted = {} /\ j = 1 /\ mincov = 1
    /\ IdleDssd

SubgroupSelection ==
    /\ pc = "call"
    /\ args.fn = "subgroup_selection"
    /\ ret' = subgroup_selection(args.candidates, phi, P, S)
    /\ pc' = "return"
    /\ UNCHANGED <<S, phi, j, k, mincov, maxdepth, P, R, Beam, depth, result,
                   allCands, evicted, args>>

NextSelect == SubgroupSelection

SpecSelect == InitSelect /\ [][NextSelect]_vars

(***************************************************************************)
(* Properties of the functions.                                            *)
(***************************************************************************)
\* C4: the list returned by remove_duplicates holds no two descriptions
\* with the same set of (attribute, value) conditions, whatever the order
\* in which their conditions were inserted.
C4_NoTwoEqualConditionSets ==
    (pc = "return" /\ args.fn = "remove_duplicates") =>
        \A a, b \in DOMAIN ret : a # b => CondSet(ret[a]) # CondSet(ret[b])

\* C5: R never holds more than j entries, and every retained quality is at
\* least every quality evicted so far.
C5_TopKBound ==
    (args.fn = "update_top_k") =>
        /\ Len(R) <= j
        /\ \A e \in evicted : \A i \in DOMAIN R : R[i][2] >= e

\* R is full, holds several entries, and entries have been evicted
C5_Witness ==
    /\ args.fn = "update_top_k"
    /\ j >= 2
    /\ Len(R) = j
    /\ Cardinality(evicted) >= 2

\* C7: the description returned by apply_dominance_pruning for a pair
\* (description, quality of the description) has a subset of the
\* description's conditions and a quality at least the description's.
C7_PruningKeepsQuality ==
    (pc = "return" /\ args.fn = "apply_dominance_pruning") =>
        /\ CondSet(ret) \subseteq CondSet(args.subgroup[1])
        /\ Phi(phi, ret, S) >= args.subgroup[2]

\* a description of three conditions pruned to two, of a higher quality
C7_Witness ==
    /\ pc = "return" /\ args.fn = "apply_dominance_pruning"
    /\ Len(args.subgroup[1]) = 3
    /\ Len(ret) = 2
    /\ Phi(phi, ret, S) > args.subgroup[2]

\* C8: apply_dominance_pruning returns at least one condition for every
\* description of at least one condition, and no description returned by
\* dssd is empty.
C8_PruningFloor ==
    /\ (pc = "return" /\ args.fn = "apply_dominance_pruning"
            /\ Len(args.subgroup[1]) >= 1) => Len(ret) >= 1
    /\ pc = "done" => \A i \in DOMAIN result : Len(result[i]) >= 1

\* three conditions under a constant quality function: every removal ties
C8_Witness ==
    /\ pc = "return" /\ args.fn = "apply_dominance_pruning"
    /\ Len(args.subgroup[1]) = 3
    /\ \A c \in DOMAIN phi.table : phi.table[c] = args.subgroup[2]
    /\ Len(ret) = 1

\* C9: every description returned by generate_refinements has one more
\* condition than the parent, keeps every condition of the parent, and
\* covers at least mincov rows; a refinement that covers fewer rows is not
\* returned, and the call returns.
C9_RefinementMinimality ==
    (pc = "return" /\ args.fn = "generate_refinements") =>
        /\ \A i \in DOMAIN ret :
              /\ Len(ret[i]) = Len(args.subgroup) + 1
              /\ Cardinality(Keys(ret[i])) = Len(ret[i])
              /\ CondSet(args.subgroup) \subseteq CondSet(ret[i])
              /\ coverage_count(ret[i], S) >= mincov
        /\ \A column \in Range(S.columns) \ Keys(args.subgroup), value \in BOOLEAN :
              LET refined == CondSet(args.subgroup) \cup {<<column, value>>}
                  covered == {r \in S.rows : \A c \in refined : r[1][c[1]] = c[2]}
              IN  Cardinality(covered) < mincov =>
                      \A i \in DOMAIN ret : CondSet(ret[i]) # refined

\* a parent with conditions, of which one refinement is returned and
\* another is dropped for its coverage
C9_Witness ==
    /\ pc = "return" /\ args.fn = "generate_refinements"
    /\ Len(args.subgroup) >= 1
    /\ ret # <<>>
    /\ \E column \in Range(S.columns) \ Keys(args.subgroup), value \in BOOLEAN :
          /\ coverage_count(Append(args.subgroup, <<column, value>>), S) < mincov
          /\ coverage_count(Append(args.subgroup, <<column, ~value>>), S) >= mincov

\* C10: subgroup_selection returns min(beam_width, number of candidates)
\* descriptions: the first ones of the candidates in descending order of
\* quality, candidates of equal quality in their order in the input.
C10_SelectionIsStablePrefix ==
    (pc = "return" /\ args.fn = "subgroup_selection") =>
        LET cands == args.candidates
            q(d)  == Phi(phi, d, S)
        IN  /\ Len(ret) = Min(P["beam_width"], Len(cands))
            /\ \E f \in [DOMAIN ret -> DOMAIN cands] :
                  /\ \A a \in DOMAIN ret : ret[a] = cands[f[a]]
                  /\ \A a, b \in DOMAIN ret :
                        a < b => \/ q(ret[a]) > q(ret[b])
                                 \/ q(ret[a]) = q(ret[b]) /\ f[a] < f[b]
                  /\ \A c \in DOMAIN cands :
                        (\A a \in DOMAIN ret : f[a] # c) =>
                            \A a \in DOMAIN ret :
                                \/ q(cands[c]) < q(ret[a])
                                \/ q(cands[c]) = q(ret[a]) /\ f[a] < c

\* more candidates than beam_width, the best one not first in the input,
\* and a candidate left out that has the quality of the last one selected
C10_Witness ==
    /\ pc = "return" /\ args.fn = "subgroup_selection"
    /\ Len(args.candidates) > P["beam_width"]
    /\ Len(ret) >= 2
    /\ ret[1] # args.candidates[1]
    /\ Phi(phi, ret[1], S) > Phi(phi, ret[Len(ret)], S)
    /\ \E c \in DOMAIN args.candidates :
          /\ args.candidates[c] \notin Range(ret)
          /\ Phi(phi, args.candidates[c], S) = Phi(phi, ret[Len(ret)], S)

(***************************************************************************)
(* Further properties of dssd.                                             *)
(***************************************************************************)
\* C11: with an invalid configuration dssd stops at entry: it generates no
\* refinement, scores no candidate and returns no result list.
C11_InvalidConfigFailsFast ==
    InvalidConfig =>
        /\ allCands = <<>>
        /\ pc = "depth_loop" /\ depth = 1

\* the position dssd moves to from a position it has not returned from
NextPosition ==
    CASE pc = "depth_loop" /\ depth <= maxdepth -> "depth_loop"
      [] pc = "depth_loop" /\ depth > maxdepth  -> "post_processing"
      [] pc = "post_processing"                 -> "final_selection"
      [] pc = "final_selection"                 -> "done"
      [] OTHER                                  -> "none"

\* C12: the depth loop runs exactly maxdepth iterations (each step taken
\* with depth <= maxdepth adds one to depth and stays in the loop, the step
\* taken with depth = maxdepth + 1 leaves it) and dssd then goes through
\* post-processing and final selection to its return, without an error.
\* An iteration that generates no candidate leaves an empty beam and leaves
\* R as it is, and so does every iteration after it.
C12_DepthLoopTerminates ==
    /\ [](/\ pc \in {"depth_loop", "post_processing", "final_selection", "done"}
          /\ 1 <= depth /\ depth <= maxdepth + 1
          /\ pc # "depth_loop" => depth = maxdepth + 1)
    /\ [][/\ pc' = NextPosition
          /\ depth' = IF pc' = "depth_loop" THEN depth + 1 ELSE depth]_vars
    /\ [][(pc = "depth_loop" /\ depth' = depth + 1 /\ allCands' = allCands) =>
              (Beam' = <<>> /\ R' = R)]_vars
    /\ [][(pc = "depth_loop" /\ Beam = <<>>) =>
              (allCands' = allCands /\ Beam' = <<>> /\ R' = R)]_vars

\* a search that ran out of candidates before maxdepth and still returns
\* what the top list held
C12_Witness ==
    /\ pc = "done"
    /\ maxdepth >= 2
    /\ allCands # <<>>
    /\ \A c \in DOMAIN allCands : Len(allCands[c]) < maxdepth - 1
    /\ result # <<>>

(***************************************************************************)
(* Further properties of the functions.                                    *)
(***************************************************************************)
\* the subsequence of X at the positions in keep, in the order of X
SubsequenceAt(X, keep) ==
    [n \in 1..Cardinality(keep) |->
        X[CHOOSE i \in keep : Cardinality({m \in keep : m <= i}) = n]]

\* C13: remove_duplicates is idempotent, and its output is the input with
\* only the first occurrence of each description kept, in the order of the
\* input; two descriptions are the same description when they have the
\* same conditions.
C13_DedupKeepsFirstOccurrences ==
    (pc = "return" /\ args.fn = "remove_duplicates") =>
        LET X == args.subgroups
        IN  /\ remove_duplicates(ret) = ret
            /\ ret = SubsequenceAt(X, {i \in DOMAIN X :
                        \A m \in 1..(i - 1) : ~DictEq(X[m], X[i])})

\* the least quality held in a non-empty R
MinQuality(R_) ==
    CHOOSE q \in {R_[i][2] : i \in DOMAIN R_} : \A i \in DOMAIN R_ : q <= R_[i][2]

\* C14: on a full R, update_top_k with a quality that does not exceed the
\* least retained quality leaves R as it is, and with a greater quality it
\* removes one entry of the least quality and appends the candidate; with a
\* quality function that is always 0, R holds the first j candidates
\* generated (all of them while fewer than j were generated), and no error
\* is raised.
C14_FullListUpdate ==
    /\ [][(args.fn = "update_top_k" /\ Len(R) = j) =>
            IF ret'[2] <= MinQuality(R) THEN R' = R
            ELSE \E i \in DOMAIN R :
                    /\ R[i][2] = MinQuality(R)
                    /\ R' = Append(RemoveAt(R, i), ret')]_vars
    /\ [](pc # "error")
    /\ []((pc \in {"depth_loop", "post_processing"} /\ phi.kind = "zero") =>
            R = [i \in 1..Min(j, Len(allCands)) |-> <<allCands[i], 0>>])

\* a full list of several entries that has just turned down a candidate of
\* its least quality, after taking a better one earlier
C14_Witness ==
    /\ args.fn = "update_top_k" /\ pc = "return"
    /\ j >= 2 /\ Len(R) = j
    /\ evicted # {}
    /\ ret[2] = MinQuality(R)
    /\ R[Len(R)] # ret

\* the description that pruning holds when it comes to the i-th condition of
\* d, given the description ret it returns: the conditions before the i-th
\* that were kept, then the i-th and those after it
CurrentAt(d, ret_, i) ==
    SelectSeq(SubSeq(d, 1, i - 1), LAMBDA c : c \in Range(ret_))
    \o SubSeq(d, i, Len(d))

\* C15: apply_dominance_pruning goes once through the conditions in their
\* stored order, and drops the condition it comes to exactly when the
\* current description without it has a quality at least the quality of
\* the current description; a description down to one condition keeps it.
\* Under a constant quality function a description of two or more
\* conditions is reduced to its last condition.
C15_GreedySinglePass ==
    (pc = "return" /\ args.fn = "apply_dominance_pruning") =>
        LET d == args.subgroup[1]
        IN  /\ ret = SelectSeq(d, LAMBDA c : c \in Range(ret))
            /\ \A i \in DOMAIN d :
                  LET current == CurrentAt(d, ret, i)
                  IN  IF Len(current) = 1 THEN d[i] \in Range(ret)
                      ELSE d[i] \notin Range(ret) <=>
                             Phi(phi, DictDel(current, d[i][1]), S)
                                >= Phi(phi, current, S)
            /\ (Len(d) >= 2 /\ \A c \in DOMAIN phi.table :
                                  phi.table[c] = args.subgroup[2])
                  => ret = <<d[Len(d)]>>

\* three conditions of which the second is dropped on a tie and the others
\* are kept because dropping them lowers the quality
C15_Witness ==
    /\ pc = "return" /\ args.fn = "apply_dominance_pruning"
    /\ Len(args.subgroup[1]) = 3
    /\ ret = <<args.subgroup[1][1], args.subgroup[1][3]>>
    /\ Phi(phi, ret, S) = args.subgroup[2]

(***************************************************************************)
(* Sizes of the descriptions in the depth loop.                            *)
(***************************************************************************)
\* C16: the candidates generated in iteration d and the beam selected at
\* the end of iteration d have exactly d conditions (the beam before
\* iteration 1 is the empty description), and every description held in
\* the top list has between 1 and maxdepth conditions.
C16_SizeGrowsByOne ==
    /\ [](\A b \in DOMAIN Beam : Len(Beam[b]) = depth - 1)
    /\ [](pc \in {"depth_loop", "post_processing"} =>
            \A i \in DOMAIN R : 1 <= Len(R[i][1]) /\ Len(R[i][1]) <= maxdepth)
    /\ [][pc = "depth_loop" =>
            \A c \in (Len(allCands) + 1)..Len(allCands') :
                Len(allCands'[c]) = depth]_vars

\* three iterations done, a beam of three-condition descriptions, and a top
\* list holding descriptions of one and of three conditions
C16_Witness ==
    /\ pc = "post_processing"
    /\ depth = 4
    /\ Beam # <<>>
    /\ \E a, b \in DOMAIN R : Len(R[a][1]) = 1 /\ Len(R[b][1]) = 3

(***************************************************************************)
(* Object identity.  A Python dict is an object that del and item          *)
(* assignment change in place, and a list or a tuple holds references.     *)
(* memory is the sequence of the dict objects allocated so far, a          *)
(* reference is an index into it.  The retained list R holds               *)
(* (reference, quality) pairs.                                             *)
(***************************************************************************)
\* mutation: no new object, the copy is the object itself
HeapCopy_Alias(memory, ref) == [memory |-> memory, ref |-> ref]

\* dict.copy(), and the new dict that a {**d, ...} display starts from: a new
\* object with the items of memory[ref]
HeapCopy(memory, ref) ==
    [memory |-> Append(memory, memory[ref]), ref |-> Len(memory) + 1]

\* refined_subgroup = {**subgroup, **new_condition}: a new dict that receives
\* the items of subgroup, then column: value
HeapMerge(memory, ref, column, value) ==
    LET c == HeapCopy(memory, ref)
    IN  [memory |-> [c.memory EXCEPT ![c.ref] = DictMerge(@, column, value)],
         ref    |-> c.ref]

\* one value of the inner loop; out is [memory, refinements]
HeapRefineValue(out, ref, mincov_, data, column, value) ==
    LET m == HeapMerge(out.memory, ref, column, value)
    IN  [memory      |-> m.memory,
         refinements |-> IF MeetsCoverage(m.memory[m.ref], mincov_, data)
                         THEN Append(out.refinements, m.ref)
                         ELSE out.refinements]

RECURSIVE HeapRefineLoop(_, _, _, _, _)
\* the loop over data.columns from the i-th column on; the guard reads the
\* description as it is in memory at that moment
HeapRefineLoop(out, ref, mincov_, data, i) ==
    IF i > Len(data.columns) THEN out
    ELSE LET column == data.columns[i]
         IN  HeapRefineLoop(
                 IF RefinableColumn(out.memory[ref], column)
                 THEN HeapRefineValue(
                          HeapRefineValue(out, ref, mincov_, data, column, TRUE),
                          ref, mincov_, data, column, FALSE)
                 ELSE out,
                 ref, mincov_, data, i + 1)

\* generate_refinements on a reference: the memory after the call and the
\* references of the refinements
HeapGenerateRefinements(memory, ref, mincov_, data) ==
    HeapRefineLoop([memory |-> memory, refinements |-> <<>>], ref, mincov_, data, 1)

RECURSIVE HeapPruneLoop(_, _, _, _, _, _, _)
\* the loop over list(subgroup[0].keys()), from the i-th key on
HeapPruneLoop(memory, keys, i, pruned_subgroup, current_quality, quality_func, data) ==
    IF i > Len(keys) THEN [memory |-> memory, ref |-> pruned_subgroup]
    ELSE LET c             == HeapCopy(memory, pruned_subgroup)
             temp_subgroup == c.ref
             after_del     == [c.memory EXCEPT ![temp_subgroup] = DictDel(@, keys[i][1])]
             temp_quality  == Phi(quality_func, after_del[temp_subgroup], data)
             accept        == PruneAccepts(temp_quality, current_quality)
             next_subgroup == IF accept THEN temp_subgroup ELSE pruned_subgroup
             next_quality  == IF accept THEN temp_quality ELSE current_quality
         IN  IF PruneFloor(after_del[next_subgroup])
             THEN [memory |-> after_del, ref |-> next_subgroup]
             ELSE HeapPruneLoop(after_del, keys, i + 1, next_subgroup, next_quality,
                                quality_func, data)

\* apply_dominance_pruning on a (reference, quality) pair: the memory after
\* the call and the reference returned
HeapApplyDominancePruning(memory, subgroup, quality_func, data) ==
    LET c == HeapCopy(memory, subgroup[1])
    IN  IF PruneFloor(c.memory[c.ref]) THEN c
        ELSE HeapPruneLoop(c.memory, c.memory[subgroup[1]], 1, c.ref, subgroup[2],
                           quality_func, data)

(***************************************************************************)
(* One beam member refined, the member and its refinements retained in R,  *)
(* then every entry of R pruned in turn, as dssd does with room in R for   *)
(* all of them.  args.memory is the memory before the first call,          *)
(* ret.memory the memory now, ret.pruned the references returned by the    *)
(* pruning calls made so far.                                              *)
(***************************************************************************)
InitHeap ==
    /\ S \in Datasets
    /\ phi \in QualityFunctions
    /\ mincov \in 1..MaxMincov
    /\ \E b \in {<<>>} \cup OrderedDescriptions(Range(S.columns)) :
          /\ args = [fn |-> "refine_then_prune", memory |-> <<b>>, subgroup |-> 1]
          /\ ret = [memory |-> <<b>>, pruned |-> <<>>]
    /\ pc = "call"
    /\ R = <<>> /\ evicted = {} /\ j = 1 /\ P = [beam_width |-> 1]
    /\ IdleDssd

\* Cands.extend(generate_refinements(b, mincov, S)), then R.append((c, phi(c, S)))
\* for every candidate; a beam member with conditions is in R already
RefineOnHeap ==
    /\ pc = "call"
    /\ args.fn = "refine_then_prune"
    /\ LET b       == args.subgroup
           g       == HeapGenerateRefinements(ret.memory, b, mincov, S)
           members == (IF g.memory[b] = <<>> THEN <<>> ELSE <<b>>) \o g.refinements
       IN  /\ ret' = [memory |-> g.memory, pruned |-> <<>>]
           /\ R' = [e \in DOMAIN members |->
                       <<members[e], Phi(phi, g.memory[members[e]], S)>>]
           /\ pc' = IF members = <<>> THEN "return" ELSE "prune"
    /\ UNCHANGED <<S, phi, j, k, mincov, maxdepth, P, Beam, depth, result,
                   allCands, evicted, args>>

\* the next call of [apply_dominance_pruning(r, phi, S) for r in R]
PruneOnHeap ==
    /\ pc = "prune"
    /\ args.fn = "refine_then_prune"
    /\ LET r == R[Len(ret.pruned) + 1]
           p == HeapApplyDominancePruning(ret.memory, r, phi, S)
       IN  /\ ret' = [memory |-> p.memory, pruned |-> Append(ret.pruned, p.ref)]
           /\ pc' = IF Len(ret.pruned) + 1 = Len(R) THEN "return" ELSE "prune"
    /\ UNCHANGED <<S, phi, j, k, mincov, maxdepth, P, R, Beam, depth, result,
                   allCands, evicted, args>>

NextHeap == RefineOnHeap \/ PruneOnHeap

SpecHeap == InitHeap /\ [][NextHeap]_vars

\* the descriptions that R must hold: the beam member, if it has conditions,
\* and its refinements, each as it was when it was retained
RetainedDescriptions ==
    LET b == args.memory[args.subgroup]
    IN  (IF b = <<>> THEN <<>> ELSE <<b>>) \o generate_refinements(b, mincov, S)

\* C17: generate_refinements and apply_dominance_pruning leave the
\* description they are given as it was: the beam member is unchanged by
\* refining it, every retained description is unchanged by the pruning of
\* itself and of the other entries, the pruned description is a new object,
\* and the result of pruning an entry is the result of pruning that entry
\* alone, whatever was pruned before it.
C17_DescriptionsAreNotModified ==
    args.fn = "refine_then_prune" =>
        /\ \A ref \in DOMAIN args.memory : ret.memory[ref] = args.memory[ref]
        /\ pc \in {"prune", "return"} =>
              /\ Len(R) = Len(RetainedDescriptions)
              /\ \A e \in DOMAIN R : ret.memory[R[e][1]] = RetainedDescriptions[e]
              /\ \A e \in DOMAIN ret.pruned :
                    /\ \A f \in DOMAIN R : ret.pruned[e] # R[f][1]
                    /\ ret.memory[ret.pruned[e]] =
                          apply_dominance_pruning(
                              <<RetainedDescriptions[e], R[e][2]>>, phi, S)

\* a beam member with conditions and two refinements of it, all pruned, the
\* member and a refinement both losing a condition
C17_Witness ==
    /\ args.fn = "refine_then_prune"
    /\ pc = "return"
    /\ Len(R) >= 3
    /\ R[1][1] = args.subgroup
    /\ Len(ret.memory[ret.pruned[1]]) < Len(ret.memory[R[1][1]])
    /\ \E e \in 2..Len(R) :
          /\ CondSet(ret.memory[R[1][1]]) \subseteq CondSet(ret.memory[R[e][1]])
          /\ Len(ret.memory[ret.pruned[e]]) < Len(ret.memory[R[e][1]])

\* C18: the list returned by dssd holds no two descriptions with the same
\* set of (attribute, value) conditions.
C18_ResultHasNoTwoEqualConditionSets ==
    pc = "done" =>
        \A a, b \in DOMAIN result :
            a # b => CondSet(result[a]) # CondSet(result[b])

====
